---- MODULE Spec2Model ----
(***************************************************************************)
(* The voice turn pipeline of voice_agent_base.                            *)
(*                                                                         *)
(* Server side: the LangGraph turn graph                                   *)
(*     __start__ -> speech_to_text -> react_agent -> text_to_speech        *)
(*               -> __end__                                                *)
(* over the SpeechAnnotation state (messages, audioInput, ttsOutput).      *)
(* Each node is a function from the state to an update; the graph applies  *)
(* the update through the channels' reducers and follows the edge.         *)
(* The three collaborators (Whisper transcription, the ReAct agent, the    *)
(* ElevenLabs synthesis) are nondeterministic: every call either throws    *)
(* or returns a value.                                                     *)
(*                                                                         *)
(* Client side: the Voice Session of VoiceOnlyInterface, a React component *)
(* that records the microphone, submits the recording as a turn and plays  *)
(* the ttsOutput of the result.  Its handlers run to their next await; a   *)
(* continuation keeps the values its closure captured when it was called.  *)
(***************************************************************************)
EXTENDS Naturals, Sequences, FiniteSets, TLC

VARIABLES
    pc,           \* the node the graph runs next, "__end__", or "raised"
    messages,     \* SpeechAnnotation.messages
    audioInput,   \* SpeechAnnotation.audioInput
    ttsOutput,    \* SpeechAnnotation.ttsOutput
    env,          \* process.env: which API credentials are configured
    ran,          \* history: the nodes that have started, in order
    entered,      \* history: the state each node was entered with
    exited,       \* history: the state after each node's update was applied
    sttCalls,     \* history: calls of openai.audio.transcriptions.create
    agentResult,  \* history: the messages reactAgent.invoke returned
    ttsCalls,     \* history: calls of elevenlabs.textToSpeech.convert
    session,      \* the Voice Session: React state, refs, browser resources
    player        \* the TTS player hook: React state, refs, object URLs

turnVars == <<pc, messages, audioInput, ttsOutput, env, ran, entered, exited,
              sttCalls, agentResult, ttsCalls>>

vars == <<pc, messages, audioInput, ttsOutput, env, ran, entered, exited,
          sttCalls, agentResult, ttsCalls, session, player>>

(***************************************************************************)
(* Bounds of the model.                                                    *)
(***************************************************************************)
\* the most messages one agent run adds to the history
MaxNew == 2

\* the most recordings the user starts in one Voice Session
MaxAttempts == 2

(***************************************************************************)
(* Values.                                                                 *)
(***************************************************************************)
\* JavaScript's undefined, as the value of an optional channel
NONE == [kind |-> "undefined"]

\* a node that has not run (history only)
NotRun == [kind |-> "notrun"]

\* the turn graph runs on the server: no Voice Session
NoSession == [mounted |-> FALSE]

\* no component uses the TTS player hook
NoPlayer == [mounted |-> FALSE]

\* A message: its class (human, ai, tool) and its content.  ctype is
\* typeof content: "string", or "blocks" for an array of content blocks,
\* whose text is not used.
Msg(type, ctype, text) == [type |-> type, ctype |-> ctype, text |-> text]

HumanMessage(content) == Msg("human", "string", content)

AIMessage(content) == Msg("ai", "string", content)

AIBlocks == Msg("ai", "blocks", "")

ToolMessage(content) == Msg("tool", "string", content)

\* the fixed text of the message appended when transcription fails
ApologyText ==
    "Sorry, I couldn't process your voice message. Please try again or type your message."

\* audioData.length < MinAudioChars is rejected
MinAudioChars == 100

\* SpeechInput.  audioData is base64 text, represented by its length in
\* characters (no padding characters).
SpeechInput(chars) ==
    [kind |-> "audio", audioData |-> chars, mimeType |-> "audio/webm",
     size |-> (chars * 3) \div 4]

\* Buffer.from(base64, 'base64'): the number of bytes decoded
base64ToBuffer(chars) == (chars * 3) \div 4

\* audioBuffer.toString('base64'): the number of characters encoded
toBase64(bytes) == 4 * ((bytes + 2) \div 3)

\* A faulty TTSOutput whose size is the length of the base64 text (C31 rules
\* it out).
TTSOutputTextSize(bytes) ==
    [kind |-> "tts", audioData |-> toBase64(bytes), mimeType |-> "audio/mpeg",
     size |-> toBase64(bytes)]

\* TTSOutput built from a synthesized buffer of the given length
TTSOutput(bytes) ==
    [kind |-> "tts", audioData |-> toBase64(bytes), mimeType |-> "audio/mpeg",
     size |-> bytes]

\* a ttsOutput left in the thread state by an earlier turn
StaleTts == TTSOutput(7)

(***************************************************************************)
(* Updates and the channels' reducers.                                     *)
(***************************************************************************)
\* A node's return value: the messages to append and, for the keys named,
\* the values written to the last-value channels.
Update(msgs, keys, audio, tts) ==
    [messages |-> msgs, keys |-> keys, audioInput |-> audio, ttsOutput |-> tts]

\* return {}
EmptyUpdate == Update(<<>>, {}, NONE, NONE)

\* A faulty reducer that replaces the message list by the update's messages
\* (C32 rules it out).
ApplyUpdateReplacing(state, u) ==
    [messages   |-> u.messages,
     audioInput |-> IF "audioInput" \in u.keys THEN u.audioInput
                    ELSE state.audioInput,
     ttsOutput  |-> IF "ttsOutput" \in u.keys THEN u.ttsOutput
                    ELSE state.ttsOutput]

\* messages: the messages reducer appends; audioInput, ttsOutput: the last
\* value written wins, a key the update does not hold is left alone.
ApplyUpdate(state, u) ==
    [messages   |-> state.messages \o u.messages,
     audioInput |-> IF "audioInput" \in u.keys THEN u.audioInput
                    ELSE state.audioInput,
     ttsOutput  |-> IF "ttsOutput" \in u.keys THEN u.ttsOutput
                    ELSE state.ttsOutput]

(***************************************************************************)
(* speech_to_text                                                          *)
(***************************************************************************)
\* the candidate file names, in the order they are tried
formats == <<"audio.wav", "audio.webm", "audio.mp3", "audio.m4a", "audio.ogg">>

\* What one call of the transcription collaborator does.
Throws == [ok |-> FALSE, text |-> ""]

Transcribed(text) == [ok |-> TRUE, text |-> text]

\* the transcripts Whisper may return (response_format "text": any string)
Transcripts == {"what time is it", ""}

\* The collaborator's answer to each candidate, were it called with it.
WhisperOracles == [1..Len(formats) -> {Throws} \cup {Transcribed(t) : t \in Transcripts}]

\* A faulty pass-through, returning { ttsOutput: undefined } (C5 rules it out).
PassThroughWritesTts == Update(<<>>, {"ttsOutput"}, NONE, NONE)

\* if (!audioInput) return {}
PassThrough == EmptyUpdate

\* A faulty success update, leaving audioInput in the state (C8 rules it out).
TranscribedKeepsAudio(transcription) ==
    Update(<<HumanMessage(transcription)>>, {}, NONE, NONE)

\* return { messages: [humanMessage], audioInput: undefined }
TranscribedUpdate(transcription) ==
    Update(<<HumanMessage(transcription)>>, {"audioInput"}, NONE, NONE)

\* the outer catch: return { messages: [errorMessage], audioInput: undefined }
ErrorUpdate == Update(<<HumanMessage(ApologyText)>>, {"audioInput"}, NONE, NONE)

\* !audioInput.audioData || audioInput.audioData.length < 100
TooShort(audio) == audio.audioData = 0 \/ audio.audioData < MinAudioChars

\* A faulty loop with no early exit: every candidate is called and the first
\* transcript is kept (C6 rules it out).
RECURSIVE TryAllFormats(_, _, _)
TryAllFormats(i, whisper, buffer) ==
    IF i > Len(formats) THEN [calls |-> <<>>, ok |-> FALSE, text |-> ""]
    ELSE LET call == [fileName |-> formats[i], bufferSize |-> buffer,
                      ok |-> whisper[i].ok, text |-> whisper[i].text]
             rest == TryAllFormats(i + 1, whisper, buffer)
         IN  IF whisper[i].ok
             THEN [calls |-> <<call>> \o rest.calls, ok |-> TRUE,
                   text |-> whisper[i].text]
             ELSE [calls |-> <<call>> \o rest.calls, ok |-> rest.ok,
                   text |-> rest.text]

\* for (const format of formats) { try { ...; return } catch { continue } }
\* from candidate i on: the calls made, and the transcript if one succeeded.
RECURSIVE TryFormats(_, _, _)
TryFormats(i, whisper, buffer) ==
    IF i > Len(formats) THEN [calls |-> <<>>, ok |-> FALSE, text |-> ""]
    ELSE LET call == [fileName |-> formats[i], bufferSize |-> buffer,
                      ok |-> whisper[i].ok, text |-> whisper[i].text]
         IN  IF whisper[i].ok
             THEN [calls |-> <<call>>, ok |-> TRUE, text |-> whisper[i].text]
             ELSE LET rest == TryFormats(i + 1, whisper, buffer)
                  IN  [calls |-> <<call>> \o rest.calls, ok |-> rest.ok,
                       text |-> rest.text]

\* The node: its update and the collaborator calls it made.
speech_to_text(state, environment, whisper) ==
    IF state.audioInput = NONE
    THEN [update |-> PassThrough, calls |-> <<>>]
    ELSE IF ~environment.OPENAI_API_KEY
    THEN [update |-> ErrorUpdate, calls |-> <<>>]
    ELSE IF TooShort(state.audioInput)
    THEN [update |-> ErrorUpdate, calls |-> <<>>]
    ELSE LET r == TryFormats(1, whisper,
                             base64ToBuffer(state.audioInput.audioData))
         IN  IF r.ok
             THEN [update |-> TranscribedUpdate(r.text), calls |-> r.calls]
             ELSE [update |-> ErrorUpdate, calls |-> r.calls]

(***************************************************************************)
(* react_agent_node                                                        *)
(***************************************************************************)
\* the messages an agent run may add to the history
AgentMessages ==
    {AIMessage("It is noon"), AIMessage(""), AIBlocks, ToolMessage("12:00")}

RECURSIVE SeqsUpTo(_, _)
SeqsUpTo(S, n) ==
    IF n = 0 THEN {<<>>}
    ELSE LET shorter == SeqsUpTo(S, n - 1)
         IN  shorter \cup {Append(s, x) : s \in shorter, x \in S}

\* What the stage's collaborators do: one of them throws
\* (ensureConfiguration, loadChatModel, reactAgent.invoke), or invoke
\* returns the history it was given followed by new messages.
AgentOutcomes(history) ==
    {[threw |-> TRUE, messages |-> <<>>]}
    \cup {[threw |-> FALSE, messages |-> history \o new] :
             new \in SeqsUpTo(AgentMessages, MaxNew)}

\* A faulty slice that returns the whole list (C9 rules it out).
NoSlice(resultMessages, start) == resultMessages

\* result.messages.slice(state.messages.length)

Slice(resultMessages, start) ==
    SubSeq(resultMessages, start + 1, Len(resultMessages))

\* The node has no try/catch: an exception leaves it and the graph.
react_agent_node(state, outcome) ==
    IF outcome.threw
    THEN [raised |-> TRUE, update |-> EmptyUpdate]
    ELSE [raised |-> FALSE,
          update |-> Update(Slice(outcome.messages, Len(state.messages)),
                            {}, NONE, NONE)]

(***************************************************************************)
(* text_to_speech                                                          *)
(***************************************************************************)
\* What the synthesis collaborator does: convert() or the stream throws,
\* or the stream delivers the given number of bytes.
SynthOutcomes ==
    {[threw |-> TRUE, bytes |-> 0]}
    \cup {[threw |-> FALSE, bytes |-> b] : b \in {0, 5}}

\* A faulty test that accepts an empty string (C10 rules it out).
SpeakableAnyContent(msgs) ==
    /\ Len(msgs) > 0
    /\ msgs[Len(msgs)].type = "ai"
    /\ msgs[Len(msgs)].ctype = "string"

\* lastMessage is an AIMessage or AIMessageChunk, and its content is a
\* non-empty string

Speakable(msgs) ==
    /\ Len(msgs) > 0
    /\ msgs[Len(msgs)].type = "ai"
    /\ msgs[Len(msgs)].ctype = "string"
    /\ msgs[Len(msgs)].text # ""

\* A faulty catch that returns {} and so keeps an earlier ttsOutput (C11
\* rules it out).
FailureKeepsTts == EmptyUpdate

\* the catch: return { ttsOutput: undefined }
FailureUpdate == Update(<<>>, {"ttsOutput"}, NONE, NONE)

\* the two early returns: return { ttsOutput: undefined }
SkipUpdate == Update(<<>>, {"ttsOutput"}, NONE, NONE)

\* The node: its update and the collaborator calls it made.
text_to_speech(state, environment, synth) ==
    IF ~Speakable(state.messages)
    THEN [update |-> SkipUpdate, calls |-> <<>>]
    ELSE IF ~environment.ELEVENLABS_API_KEY
    THEN [update |-> FailureUpdate, calls |-> <<>>]
    ELSE LET call == [text |-> state.messages[Len(state.messages)].text,
                      threw |-> synth.threw, bytes |-> synth.bytes]
         IN  IF synth.threw
             THEN [update |-> FailureUpdate, calls |-> <<call>>]
             ELSE [update |-> Update(<<>>, {"ttsOutput"}, NONE,
                                     TTSOutput(synth.bytes)),
                   calls |-> <<call>>]

\* JavaScript truthiness of a message's content: an array of blocks is
\* truthy, a string is truthy unless it is empty
Truthy(m) == m.ctype = "blocks" \/ m.text # ""

\* shouldProcessTTS(state)
shouldProcessTTS(state) ==
    LET msgs == state.messages
    IN  IF /\ Len(msgs) > 0
           /\ msgs[Len(msgs)].type = "ai"
           /\ Truthy(msgs[Len(msgs)])
        THEN "processTTS"
        ELSE "__end__"

(***************************************************************************)
(* The graph.                                                              *)
(***************************************************************************)
Nodes == {"speech_to_text", "react_agent", "text_to_speech"}

\* addEdge(from, to)
Edge == [n \in Nodes |->
            CASE n = "speech_to_text" -> "react_agent"
              [] n = "react_agent"    -> "text_to_speech"
              [] n = "text_to_speech" -> "__end__"]

\* the current value of the state channels
State == [messages |-> messages, audioInput |-> audioInput,
          ttsOutput |-> ttsOutput]

\* The states a turn can be submitted with: the thread's history, the new
\* audioInput (or none, for a text turn), the ttsOutput the thread still
\* holds from the turn before, and the environment.
InitHistories ==
    {<<>>,
     <<HumanMessage("hello")>>,
     <<HumanMessage("hello"), AIMessage("Hi there")>>}

AudioInputs == {NONE} \cup {SpeechInput(c) : c \in {0, 96, 100, 136}}

Init ==
    /\ pc = "speech_to_text"
    /\ messages \in InitHistories
    /\ audioInput \in AudioInputs
    /\ ttsOutput \in {NONE, StaleTts}
    /\ env \in [OPENAI_API_KEY : BOOLEAN, ELEVENLABS_API_KEY : BOOLEAN]
    /\ ran = <<>>
    /\ entered = [n \in Nodes |-> NotRun]
    /\ exited = [n \in Nodes |-> NotRun]
    /\ sttCalls = <<>>
    /\ agentResult = NONE
    /\ ttsCalls = <<>>
    /\ session = NoSession
    /\ player = NoPlayer

\* A node returned: the graph applies its update and follows the edge.
Commit(n, u) ==
    LET after == ApplyUpdate(State, u)
    IN  /\ messages' = after.messages
        /\ audioInput' = after.audioInput
        /\ ttsOutput' = after.ttsOutput
        /\ ran' = Append(ran, n)
        /\ entered' = [entered EXCEPT ![n] = State]
        /\ exited' = [exited EXCEPT ![n] = after]
        /\ pc' = Edge[n]

\* A node threw: graph.invoke rejects, the state is not returned.
Raise(n) ==
    /\ ran' = Append(ran, n)
    /\ entered' = [entered EXCEPT ![n] = State]
    /\ pc' = "raised"
    /\ UNCHANGED <<messages, audioInput, ttsOutput, exited>>

SpeechToText ==
    /\ pc = "speech_to_text"
    /\ \E whisper \in WhisperOracles :
          LET r == speech_to_text(State, env, whisper)
          IN  /\ Commit("speech_to_text", r.update)
              /\ sttCalls' = r.calls
    /\ UNCHANGED <<env, agentResult, ttsCalls, session, player>>

ReactAgent ==
    /\ pc = "react_agent"
    /\ \E outcome \in AgentOutcomes(messages) :
          LET r == react_agent_node(State, outcome)
          IN  IF r.raised
              THEN /\ Raise("react_agent")
                   /\ UNCHANGED agentResult
              ELSE /\ Commit("react_agent", r.update)
                   /\ agentResult' = [kind |-> "result", messages |-> outcome.messages]
    /\ UNCHANGED <<env, sttCalls, ttsCalls, session, player>>

TextToSpeech ==
    /\ pc = "text_to_speech"
    /\ \E synth \in SynthOutcomes :
          LET r == text_to_speech(State, env, synth)
          IN  /\ Commit("text_to_speech", r.update)
              /\ ttsCalls' = r.calls
    /\ UNCHANGED <<env, sttCalls, agentResult, session, player>>

Next == SpeechToText \/ ReactAgent \/ TextToSpeech

Spec == Init /\ [][Next]_vars

(***************************************************************************)
(* Properties of the turn graph.                                           *)
(***************************************************************************)
\* the turn is over: the graph returned its state, or raised
TurnOver == pc \in {"__end__", "raised"}

Ran(n) == \E i \in 1..Len(ran) : ran[i] = n

\* the agent stage was run and one of its collaborators threw
AgentThrew == Ran("react_agent") /\ agentResult = NONE

\* the turn was submitted with audio
AudioSubmitted == Ran("speech_to_text") /\ entered["speech_to_text"].audioInput # NONE

\* every candidate format was tried and every one failed
AllCandidatesFailed ==
    /\ Len(sttCalls) = 5
    /\ \A i \in 1..Len(sttCalls) : ~sttCalls[i].ok

\* the Transcribe stage appended exactly the apology, as a human message
ApologyAppended ==
    exited["speech_to_text"].messages =
        entered["speech_to_text"].messages
        \o <<[type |-> "human", ctype |-> "string", text |-> ApologyText]>>

\* C1: running the turn graph never raises an exception to its caller,
\* whatever the collaborators do.
C1_NeverRaises == pc # "raised"

\* C2: if the agent collaborator throws, the graph appends an apology
\* message and the Synthesize stage still executes in the same turn.
C2_AgentThrowAbsorbed ==
    (TurnOver /\ AgentThrew) =>
        /\ Len(messages) = Len(entered["react_agent"].messages) + 1
        /\ Ran("text_to_speech")

\* C3: in every turn the three stages run exactly once each, in the order
\* Transcribe, Agent, Synthesize.
C3_StagesOnceInOrder ==
    LET order == <<"speech_to_text", "react_agent", "text_to_speech">>
    IN  /\ Len(ran) <= 3
        /\ \A i \in 1..Len(ran) : ran[i] = order[i]
        /\ TurnOver => ran = order

\* C4: with audio submitted and every transcription candidate failing, the
\* Transcribe stage appends exactly one human apology message, and the
\* Agent and Synthesize stages still execute in that turn.
C4_AllFailedApologyAndSynthesis ==
    (TurnOver /\ AudioSubmitted /\ AllCandidatesFailed) =>
        /\ ApologyAppended
        /\ Ran("react_agent")
        /\ Ran("text_to_speech")

\* C5: with audioInput absent the Transcribe stage changes no field of the
\* state and does not call the transcription collaborator.
C5_TextTurnPassThrough ==
    (Ran("speech_to_text") /\ entered["speech_to_text"].audioInput = NONE) =>
        /\ exited["speech_to_text"] = entered["speech_to_text"]
        /\ sttCalls = <<>>

C5_Witness ==
    /\ Ran("speech_to_text")
    /\ entered["speech_to_text"].audioInput = NONE
    /\ entered["speech_to_text"].ttsOutput # NONE
    /\ entered["speech_to_text"].messages # <<>>

\* C6: the candidates are called in the order wav, webm, mp3, m4a, ogg with
\* the same decoded bytes, each at most once; a candidate is called only
\* after every earlier one failed, and none is called after a success.
C6_OrderedFallback ==
    LET order == <<"audio.wav", "audio.webm", "audio.mp3", "audio.m4a",
                   "audio.ogg">>
    IN  /\ Len(sttCalls) <= 5
        /\ \A i \in 1..Len(sttCalls) :
              /\ sttCalls[i].fileName = order[i]
              /\ sttCalls[i].bufferSize = sttCalls[1].bufferSize
              /\ i < Len(sttCalls) => ~sttCalls[i].ok
        /\ (sttCalls # <<>> /\ ~sttCalls[Len(sttCalls)].ok) => Len(sttCalls) = 5

C6_Witness ==
    /\ Len(sttCalls) = 3
    /\ sttCalls[3].ok

\* C7: audio below the minimum size is rejected without a call of the
\* transcription collaborator, the apology is appended, and the Synthesize
\* stage still runs.
C7_ShortAudioRejected ==
    (/\ TurnOver
     /\ AudioSubmitted
     /\ entered["speech_to_text"].audioInput.audioData < 100) =>
        /\ sttCalls = <<>>
        /\ ApologyAppended
        /\ Ran("text_to_speech")

\* C8: a Transcribe stage entered with audioInput present exits with
\* audioInput absent; on success it has appended exactly one human message
\* holding the transcript.
C8_AudioConsumed ==
    AudioSubmitted =>
        /\ exited["speech_to_text"].audioInput = NONE
        /\ (sttCalls # <<>> /\ sttCalls[Len(sttCalls)].ok) =>
              exited["speech_to_text"].messages =
                  entered["speech_to_text"].messages
                  \o <<[type |-> "human", ctype |-> "string",
                        text |-> sttCalls[Len(sttCalls)].text]>>

C8_Witness ==
    /\ AudioSubmitted
    /\ sttCalls # <<>>
    /\ sttCalls[Len(sttCalls)].ok
    /\ sttCalls[Len(sttCalls)].text # ""

\* C9: after the Agent stage, messages is the stage's input followed by
\* exactly what the agent returned beyond that prefix, so it equals the
\* list the agent returned and no message of the history appears twice.
C9_OnlyNewMessagesAppended ==
    (Ran("react_agent") /\ ~AgentThrew) =>
        LET before == entered["react_agent"].messages
            after  == exited["react_agent"].messages
            result == agentResult.messages
        IN  /\ Len(after) = Len(result)
            /\ \A i \in 1..Len(after) :
                  after[i] = IF i <= Len(before) THEN before[i]
                             ELSE result[i]

C9_Witness ==
    /\ Ran("react_agent")
    /\ ~AgentThrew
    /\ entered["react_agent"].messages # <<>>
    /\ Len(agentResult.messages) > Len(entered["react_agent"].messages)

\* C10: the synthesis collaborator is called at most once per turn, and
\* only for a last message that is agent-authored with non-empty text;
\* otherwise no call is made and ttsOutput is absent.
C10_SynthesisOnlyForAgentText ==
    LET msgs == entered["text_to_speech"].messages
        last == msgs[Len(msgs)]
        eligible == /\ msgs # <<>>
                    /\ last.type = "ai"
                    /\ last.ctype = "string"
                    /\ last.text # ""
    IN  /\ Len(ttsCalls) <= 1
        /\ ttsCalls # <<>> => Ran("text_to_speech")
        /\ Ran("text_to_speech") =>
              /\ ttsCalls # <<>> => (eligible /\ ttsCalls[1].text = last.text)
              /\ ~eligible =>
                    /\ ttsCalls = <<>>
                    /\ exited["text_to_speech"].ttsOutput = NONE

C10_Witness ==
    /\ Ran("text_to_speech")
    /\ Len(ttsCalls) = 1
    /\ ~ttsCalls[1].threw

\* C11: if the synthesis collaborator throws, the turn returns normally with
\* ttsOutput absent and messages exactly as the Agent stage left them.
C11_SynthesisThrowAbsorbed ==
    (ttsCalls # <<>> /\ ttsCalls[1].threw) =>
        /\ pc = "__end__"
        /\ ttsOutput = NONE
        /\ messages = exited["react_agent"].messages

C11_Witness ==
    /\ ttsCalls # <<>>
    /\ ttsCalls[1].threw
    /\ entered["text_to_speech"].ttsOutput # NONE

\* C12: if the synthesis collaborator returns zero bytes of audio, the stage
\* treats it as a failure: ttsOutput is absent and the turn completes.
C12_EmptyAudioIsFailure ==
    (ttsCalls # <<>> /\ ~ttsCalls[1].threw /\ ttsCalls[1].bytes = 0) =>
        /\ pc = "__end__"
        /\ ttsOutput = NONE

\* C13: at the end of every turn ttsOutput is present only if the synthesis
\* collaborator succeeded (returned audio) in that turn; an earlier turn's
\* ttsOutput does not survive a turn whose synthesis was skipped or failed.
C13_TtsOnlyFromThisTurn ==
    (TurnOver /\ ttsOutput # NONE) =>
        /\ ttsCalls # <<>>
        /\ ~ttsCalls[1].threw
        /\ ttsCalls[1].bytes > 0
        /\ ttsOutput.size = ttsCalls[1].bytes

(***************************************************************************)
(* The Voice Session: VoiceOnlyInterface.                                  *)
(*                                                                         *)
(* `session' is one record: the component's React state and refs, the      *)
(* recording hook and the stream it reads, the browser resources its code  *)
(* creates (Audio elements, object URLs, AudioContexts, animation frames,  *)
(* timers), and the continuations of its async handlers.  Handlers are     *)
(* operators from a session to the session after the handler's synchronous *)
(* run.                                                                    *)
(***************************************************************************)
\* ids of recordings, of processing timers and of playbacks
Attempts == 1..MaxAttempts

\* a ref holding null, a timeout id that is null
NoRef == 0

\* the id of a ttsOutput: `tts_${stream.messages.length}_${audioData.length}`
TtsId(count, len) == [count |-> count, len |-> len]

\* lastProcessedMessageId before any ttsOutput was seen (useState(null))
NoId == TtsId(0, 0)

\* stream.values.ttsOutput: audioData is len times the character content
ClientTts(content, len) == [kind |-> "tts", content |-> content, len |-> len]

TtsA == ClientTts("a", 8)

TtsB == ClientTts("b", 8)

TtsEmpty == ClientTts("", 0)

\* const maxBase64Length = 100 * 1024 * 1024
maxBase64Length == 100 * 1024 * 1024

\* an audioData of one character more than maxBase64Length
TtsLarge == ClientTts("a", maxBase64Length + 1)

\* an audioData that is not base64 text
TtsNotBase64 == ClientTts("@", 8)

\* atob(base64Audio) throws: a character outside the base64 alphabet, or a
\* length that no base64 text has
atobThrows(tts) == tts.content \notin {"a", "b"} \/ tts.len % 4 = 1

\* an Audio element the component has not created yet; pending says that
\* the promise of its play() is not settled
NoPlayback ==
    [status |-> "none", pending |-> FALSE, loaded |-> FALSE,
     isAnimating |-> FALSE, stopVisualization |-> FALSE,
     closurePlaying |-> FALSE]

Timer(kind, id) == [kind |-> kind, id |-> id]

\* the dependencies of the ttsOutput effect at its last run
TtsDeps(w) ==
    [ttsOutput |-> w.ttsVersion, isLoading |-> w.isLoading,
     lastProcessedMessageId |-> w.lastProcessedMessageId,
     hasUserInteracted |-> w.hasUserInteracted]

\* the component as mounted on a thread whose values are (count, tts)
Mounted(count, tts) ==
    [mounted |-> TRUE,
     \* useState
     isProcessingVoice |-> FALSE, isPlayingAudio |-> FALSE,
     hasUserInteracted |-> FALSE, lastProcessedMessageId |-> NoId,
     processingTimeoutId |-> NoRef,
     \* useRef
     audioRef |-> NoRef, audioContextRef |-> NoRef, analyserRef |-> NoRef,
     animationFrameRef |-> NoRef, currentAudioUrlRef |-> NoRef,
     \* effects: the values their last run closed over
     cleanupDep |-> NoRef, errorDep |-> FALSE,
     ttsDeps |-> [ttsOutput |-> 0, isLoading |-> FALSE,
                  lastProcessedMessageId |-> NoId,
                  hasUserInteracted |-> FALSE],
     \* useSpeechRecording
     recordingState |-> "idle", recorder |-> "idle",
     recordingError |-> FALSE, micStreams |-> 0,
     \* useStreamContext
     isLoading |-> FALSE, ttsOutput |-> tts, ttsVersion |-> 1,
     messageCount |-> count, inFlight |-> 0, delivered |-> <<tts>>,
     \* browser
     playbacks |-> [p \in Attempts |-> NoPlayback], created |-> 0,
     urls |-> {}, contexts |-> {}, frames |-> {}, timers |-> {},
     \* whether new Blob / URL.createObjectURL throw in the handler that runs
     blobThrows |-> FALSE,
     \* continuations of the async handlers
     stops |-> {}, encodes |-> {}, closes |-> {}, rejections |-> {},
     \* history
     recordings |-> 0, ignored |-> FALSE,
     notices |-> 0, completions |-> 0,
     submissions |-> 0,
     triggers |-> <<>>, toasts |-> {}]

toast(w, t) == [w EXCEPT !.toasts = @ \cup {t}]

\* getButtonState: the state the Voice Session shows
getButtonState(w) ==
    CASE w.recordingError -> "error"
      [] w.isProcessingVoice \/ w.isLoading -> "processing"
      [] w.isPlayingAudio -> "playing"
      [] w.recordingState = "recording" -> "recording"
      [] w.recordingState = "requesting" -> "requesting"
      [] OTHER -> "idle"

\* cleanupAudio, as created by the render whose processingTimeoutId was
\* closureTimeoutId
cleanupAudio(w, closureTimeoutId) ==
    LET a == [w EXCEPT !.frames = @ \ {w.animationFrameRef},
                       !.animationFrameRef = NoRef]
        b == [a EXCEPT !.urls = @ \ {a.currentAudioUrlRef},
                       !.currentAudioUrlRef = NoRef]
        \* audioContextRef.current.state !== 'closed': the context is open
        c == IF b.audioContextRef # NoRef /\ b.audioContextRef \in b.contexts
             THEN [b EXCEPT !.contexts = @ \ {b.audioContextRef},
                            !.audioContextRef = NoRef]
             ELSE b
        d == IF closureTimeoutId # NoRef
             THEN [c EXCEPT
                     !.timers = @ \ {Timer("processing", closureTimeoutId)},
                     !.processingTimeoutId = NoRef]
             ELSE c
    IN  [d EXCEPT !.isPlayingAudio = FALSE, !.isProcessingVoice = FALSE]

(***************************************************************************)
(* Playback: playAudioFromBase64 and the handlers it installs.             *)
(***************************************************************************)
\* A faulty catch block that lacks the test of NotAllowedError (C28 rules
\* it out).
playCatchAlwaysError(w, name) ==
    toast([w EXCEPT !.isPlayingAudio = FALSE], "Failed to play audio response")

\* the catch block of playAudioFromBase64, entered with an error of that name
playCatch(w, name) ==
    LET a == [w EXCEPT !.isPlayingAudio = FALSE]
    IN  IF name = "NotAllowedError"
        THEN toast(a, "Audio ready to play")
        ELSE toast(a, "Failed to play audio response")

\* playAudioFromBase64 from setIsPlayingAudio(true) to `await audio.play()`,
\* called with the ttsOutput of that version: atob, new Blob or
\* URL.createObjectURL throws and the catch block runs, or there is a fresh
\* object URL and a fresh Audio element, whose play() is pending
startPlayback(w, version) ==
    LET p == w.created + 1
        a == [w EXCEPT !.analyserRef = NoRef]
    IN  IF atobThrows(w.delivered[version]) \/ w.blobThrows
        THEN playCatch(a, "Error")
        ELSE [a EXCEPT !.isPlayingAudio = TRUE,
                       !.urls = @ \cup {p},
                       !.currentAudioUrlRef = p,
                       !.audioRef = p,
                       !.created = p,
                       !.playbacks[p] =
                           [NoPlayback EXCEPT !.status = "starting",
                                              !.pending = TRUE],
                       !.triggers = Append(@, version)]

\* the latest of a set of ttsOutput versions
Latest(versions) == CHOOSE v \in versions : \A u \in versions : u <= v

\* playAudioFromBase64 up to its first await; closurePlaying is isPlayingAudio
\* of the render that created the function
playAudioFromBase64(w, tts, closurePlaying) ==
    IF closurePlaying THEN w
    ELSE IF tts.len = 0 THEN toast(w, "Invalid audio data")
    ELSE IF tts.len > maxBase64Length
    THEN toast(w, "Audio response too large to play")
    ELSE
        LET a == [w EXCEPT !.frames = @ \ {w.animationFrameRef},
                           !.animationFrameRef = NoRef]
            b == [a EXCEPT !.urls = @ \ {a.currentAudioUrlRef},
                           !.currentAudioUrlRef = NoRef]
        IN  CASE b.audioContextRef = NoRef -> startPlayback(b, w.ttsVersion)
              \* await audioContextRef.current.close() of an open context
              [] b.audioContextRef \in b.contexts ->
                   [b EXCEPT !.contexts = @ \ {b.audioContextRef},
                             !.closes = @ \cup {w.ttsVersion}]
              \* close() of a closed context rejects: the catch block runs
              \* in a later microtask, after the continuation of the call
              \* that is closing the context (the latest close() pending)
              [] b.closes # {} ->
                   [b EXCEPT !.rejections = @ \cup {Latest(b.closes)}]
              [] OTHER -> playCatch(b, "InvalidStateError")

\* the continuation of `await audioContextRef.current.close()`, and after
\* it the catch block of the calls whose close() of that context rejected
closeResolved(w, version) ==
    LET a == startPlayback([w EXCEPT !.audioContextRef = NoRef,
                                     !.closes = @ \ {version}], version)
    IN  IF version \in a.rejections
        THEN playCatch([a EXCEPT !.rejections = @ \ {version}],
                       "InvalidStateError")
        ELSE a

\* const cleanup = () => {...} of playAudioFromBase64
cleanup(w) ==
    LET a == [w EXCEPT !.isPlayingAudio = FALSE]
        b == [a EXCEPT !.urls = @ \ {a.currentAudioUrlRef},
                       !.currentAudioUrlRef = NoRef]
        c == [b EXCEPT !.frames = @ \ {b.animationFrameRef},
                       !.animationFrameRef = NoRef]
        d == [c EXCEPT !.contexts = @ \ {c.audioContextRef},
                       !.audioContextRef = NoRef]
    IN  [d EXCEPT !.analyserRef = NoRef]

\* audio.onloadeddata: setTimeout(() => setupAudioVisualization(audio), 100)
onloadeddata(w, p) ==
    [w EXCEPT !.playbacks[p].loaded = TRUE,
              !.timers = @ \cup {Timer("visualization", p)}]

\* the catch of setupAudioVisualization: startFallback()
startFallback(w, p) == [w EXCEPT !.timers = @ \cup {Timer("fallback", p)}]

\* updateAudioLevel of playback p: one frame of the visualization loop
updateAudioLevel(w, p) ==
    LET a == [w EXCEPT !.frames = @ \ {p}]
    IN  IF a.analyserRef = NoRef \/ ~a.playbacks[p].isAnimating
        THEN a
        ELSE [a EXCEPT !.frames = @ \cup {p}, !.animationFrameRef = p]

\* setupAudioVisualization(audio p), run by the 100 ms timer; outcome says
\* how far the try block gets: "AudioContext" (the constructor throws),
\* "createMediaElementSource" (it throws), "ok"
setupAudioVisualization(w, p, outcome) ==
    LET a == [w EXCEPT !.timers = @ \ {Timer("visualization", p)}]
        b == [a EXCEPT !.audioContextRef = p, !.contexts = @ \cup {p}]
        c == [b EXCEPT !.analyserRef = p,
                       !.playbacks[p].isAnimating = TRUE,
                       !.playbacks[p].stopVisualization = TRUE]
    IN  CASE outcome = "AudioContext" -> startFallback(a, p)
          [] outcome = "createMediaElementSource" -> startFallback(b, p)
          [] OTHER -> updateAudioLevel(c, p)

\* one tick of the fallback interval of playback p
fallbackTick(w, p) ==
    IF ~w.playbacks[p].closurePlaying
    THEN [w EXCEPT !.timers = @ \ {Timer("fallback", p)}]
    ELSE w

\* (audio as any).stopVisualization()
stopVisualization(w, p) ==
    [w EXCEPT !.playbacks[p].isAnimating = FALSE,
              !.frames = @ \ {w.animationFrameRef},
              !.animationFrameRef = NoRef]

\* audio.onended of playback p
onended(w, p) ==
    LET a == [w EXCEPT !.playbacks[p].status = "ended"]
        b == IF a.playbacks[p].stopVisualization
             THEN stopVisualization(a, p) ELSE a
    IN  cleanup(b)

\* what the browser hands to audio.onerror: an Event, never an Error; the
\* cause is the element's MediaError (MEDIA_ERR_DECODE or
\* MEDIA_ERR_SRC_NOT_SUPPORTED)
ErrorEvents ==
    {[isError |-> FALSE, cause |-> c] : c \in {"decode", "src_not_supported"}}

\* audio.onerror of playback p: `e instanceof Error && e.name === ...`; a
\* play() that is pending stays pending, its catch block is a later task
onerror(w, p, e) ==
    LET a == cleanup([w EXCEPT !.playbacks[p].status = "failed"])
    IN  IF e.isError /\ e.cause = "NotAllowedError"
        THEN toast(a, "Audio ready to play")
        ELSE toast(a, "Failed to play audio response")

\* `await audio.play()` resolved: the element is sounding
playResolved(w, p) ==
    toast([w EXCEPT !.playbacks[p].status = "playing",
                    !.playbacks[p].pending = FALSE], "Playing response")

\* `await audio.play()` rejected with an error of that name: the catch
\* block.  An element that has fired 'error' before stays failed.
playRejected(w, p, name) ==
    playCatch([w EXCEPT !.playbacks[p].status =
                            IF @ = "starting" THEN "rejected" ELSE @,
                        !.playbacks[p].pending = FALSE], name)

(***************************************************************************)
(* Rendering: the effects of VoiceOnlyInterface.                           *)
(***************************************************************************)
\* the body of the ttsOutput effect, run with the values render r closed over.
\* (The second effect looks for a ttsOutput on the last AI message; the turn
\* graph puts ttsOutput in the state, never on a message, so it plays nothing.)
\* the ttsOutput effect without the hasUserInteracted test of line 133
ttsOutputEffectUngated(w, r) ==
    IF r.isLoading THEN w
    ELSE IF r.ttsOutput = NONE THEN w
    ELSE IF r.ttsOutput.len = 0 THEN w
    ELSE
        LET currentTtsId == TtsId(r.messageCount, r.ttsOutput.len)
        IN  IF currentTtsId = r.lastProcessedMessageId THEN w
            ELSE playAudioFromBase64(
                     [w EXCEPT !.lastProcessedMessageId = currentTtsId],
                     r.ttsOutput, r.isPlayingAudio)

ttsOutputEffect(w, r) ==
    IF r.isLoading THEN w
    ELSE IF r.ttsOutput = NONE THEN w
    ELSE IF r.ttsOutput.len = 0 THEN w
    ELSE
        LET currentTtsId == TtsId(r.messageCount, r.ttsOutput.len)
        IN  IF currentTtsId = r.lastProcessedMessageId THEN w
            ELSE
                LET a == [w EXCEPT !.lastProcessedMessageId = currentTtsId]
                IN  IF r.hasUserInteracted
                    THEN playAudioFromBase64(a, r.ttsOutput, r.isPlayingAudio)
                    ELSE toast([a EXCEPT !.notices = @ + 1],
                               "Audio response ready")

\* one render commit: every effect whose dependencies changed runs, in source
\* order, with the values of this render; the cleanup of the cleanupAudio
\* effect is the cleanupAudio of the previous render
Render(w) ==
    LET a == IF w.processingTimeoutId # w.cleanupDep
             THEN [cleanupAudio(w, w.cleanupDep) EXCEPT
                     !.cleanupDep = w.processingTimeoutId]
             ELSE w
        b == IF w.recordingError # a.errorDep
             THEN [(IF w.recordingError THEN toast(a, "Recording failed")
                    ELSE a) EXCEPT !.errorDep = w.recordingError]
             ELSE a
    IN  IF TtsDeps(w) # b.ttsDeps
        THEN [ttsOutputEffect(b, w) EXCEPT !.ttsDeps = TtsDeps(w)]
        ELSE b

\* React renders until no effect changes state
RECURSIVE Settle(_)
Settle(w) == LET r == Render(w) IN IF r = w THEN w ELSE Settle(r)

\* setState of an unmounted component does nothing
StateFields ==
    {"isProcessingVoice", "isPlayingAudio", "hasUserInteracted",
     "lastProcessedMessageId", "processingTimeoutId"}

\* the session after a handler took w to v
After(w, v) ==
    LET a == IF w.mounted
             THEN Settle(v)
             ELSE [f \in DOMAIN v |->
                     IF f \in StateFields THEN w[f] ELSE v[f]]
    IN  [a EXCEPT !.blobThrows = FALSE]

(***************************************************************************)
(* Recording and submission: handleRecordingToggle,                        *)
(* handleVoiceRecordingComplete, and the hook and the stream they use.     *)
(***************************************************************************)
\* useSpeechRecording.startRecording up to the permission prompt
startRecording(w) ==
    [w EXCEPT !.recorder = "requesting", !.recordingState = "requesting",
              !.recordingError = FALSE, !.recordings = @ + 1]

\* the finally block of handleVoiceRecordingComplete; closureTimeoutId is
\* processingTimeoutId of the render that created the handler
finally(w, closureTimeoutId) ==
    LET a == IF closureTimeoutId # NoRef
             THEN [w EXCEPT
                     !.timers = @ \ {Timer("processing", closureTimeoutId)},
                     !.processingTimeoutId = NoRef]
             ELSE w
    IN  [a EXCEPT !.isProcessingVoice = FALSE]

\* handleVoiceRecordingComplete up to `await audioBlob.arrayBuffer()`;
\* blob is "ok", "large" (over 50MB) or "null"; c is the closure
\* handleVoiceRecordingComplete without the size check of lines 623-631
completeUnchecked(w, blob, c) ==
    IF c.isLoading THEN w
    ELSE
        LET timeoutId == w.completions + 1
            a == [w EXCEPT !.isProcessingVoice = TRUE,
                           !.timers = @ \cup {Timer("processing", timeoutId)},
                           !.processingTimeoutId = timeoutId,
                           !.completions = timeoutId]
        IN  IF blob = "null"
            THEN finally(toast(a, "Failed to process voice recording"),
                         c.processingTimeoutId)
            ELSE [a EXCEPT !.encodes = @ \cup
                     {[timeoutId |-> timeoutId,
                       processingTimeoutId |-> c.processingTimeoutId]}]

handleVoiceRecordingComplete(w, blob, c) ==
    IF c.isLoading THEN w
    ELSE
        LET timeoutId == w.completions + 1
            a == [w EXCEPT !.isProcessingVoice = TRUE,
                           !.timers = @ \cup {Timer("processing", timeoutId)},
                           !.processingTimeoutId = timeoutId,
                           !.completions = timeoutId]
        IN  CASE blob = "null" ->
                   finally(toast(a, "Failed to process voice recording"),
                           c.processingTimeoutId)
              [] blob = "large" ->
                   finally(toast(a, "Audio file too large"),
                           c.processingTimeoutId)
              [] OTHER ->
                   [a EXCEPT !.encodes = @ \cup
                       {[timeoutId |-> timeoutId,
                         processingTimeoutId |-> c.processingTimeoutId]}]

\* handleRecordingToggle after `await stopRecording()`
completeIfBlob(w, blob, c) ==
    IF blob # "null" THEN handleVoiceRecordingComplete(w, blob, c) ELSE w

\* useSpeechRecording.stopRecording, called by a handler with closure c:
\* a recorder that is recording stops buffering and finalizes its blob
\* later.  What the hook answers to a stop on a recorder that is no longer
\* recording is stated nowhere; the model takes the answer after which the
\* component does nothing further, no blob, and no property below is about
\* that answer.
stopRecording(w, c) ==
    IF w.recorder = "recording"
    THEN [w EXCEPT !.recorder = "stopping", !.stops = @ \cup {c}]
    ELSE completeIfBlob(w, "null", c)

\* A faulty handleRecordingToggle that lacks the test of isProcessingVoice
\* and stream.isLoading (C21 rules it out).
handleRecordingToggleUnguarded(w) ==
    LET a == [w EXCEPT !.hasUserInteracted = TRUE]
        c == [isLoading |-> w.isLoading,
              processingTimeoutId |-> w.processingTimeoutId]
    IN  CASE w.recordingState = "idle" -> startRecording(a)
          [] w.recordingState = "recording" -> stopRecording(a, c)
          [] OTHER -> a

\* handleRecordingToggle up to its first await
handleRecordingToggle(w) ==
    IF w.isProcessingVoice \/ w.isLoading THEN [w EXCEPT !.ignored = TRUE]
    ELSE
        LET a == [w EXCEPT !.hasUserInteracted = TRUE]
            c == [isLoading |-> w.isLoading,
                  processingTimeoutId |-> w.processingTimeoutId]
        IN  CASE w.recordingState = "idle" -> startRecording(a)
              [] w.recordingState = "recording" -> stopRecording(a, c)
              [] OTHER -> [a EXCEPT !.ignored = TRUE]

\* stream.submit: a run is started with the optimistic human message
submit(w) ==
    [w EXCEPT !.isLoading = TRUE, !.inFlight = @ + 1,
              !.submissions = @ + 1, !.messageCount = @ + 1]

\* handleVoiceRecordingComplete after `await audioBlob.arrayBuffer()`
encodeDone(w, e, ok) ==
    LET a == [w EXCEPT !.encodes = @ \ {e}]
    IN  IF ok
        THEN finally(toast(submit(a), "Voice message sent!"),
                     e.processingTimeoutId)
        ELSE finally(toast(a, "Failed to process audio"),
                     e.processingTimeoutId)

\* the 60 s timeout of handleVoiceRecordingComplete fires
processingTimedOut(w, timeoutId) ==
    toast([w EXCEPT !.timers = @ \ {Timer("processing", timeoutId)},
                    !.isProcessingVoice = FALSE],
          "Processing timed out")

(***************************************************************************)
(* The Voice Session as a state machine: one action per event.             *)
(***************************************************************************)
\* the threads the component is mounted on: a new one, one with a reply
Threads == {[count |-> 0, tts |-> NONE], [count |-> 2, tts |-> TtsA]}

\* what a finished run leaves in stream.values.ttsOutput
Deliveries == {NONE, TtsA, TtsB, TtsEmpty, TtsLarge, TtsNotBase64}

SessionInit ==
    /\ pc = "__end__"
    /\ messages = <<>>
    /\ audioInput = NONE
    /\ ttsOutput = NONE
    /\ env = [OPENAI_API_KEY |-> TRUE, ELEVENLABS_API_KEY |-> TRUE]
    /\ ran = <<>>
    /\ entered = [n \in Nodes |-> NotRun]
    /\ exited = [n \in Nodes |-> NotRun]
    /\ sttCalls = <<>>
    /\ agentResult = NONE
    /\ ttsCalls = <<>>
    /\ \E t \in Threads : session = Settle(Mounted(t.count, t.tts))
    /\ player = NoPlayer

\* the user clicks the visualizer
Gesture ==
    /\ session.mounted
    /\ session.recordingState = "idle" => session.recordings < MaxAttempts
    /\ session' = After(session, handleRecordingToggle(session))
    /\ UNCHANGED <<turnVars, player>>

\* the browser grants the microphone
MicGranted ==
    /\ session.recorder = "requesting"
    /\ session' = After(session,
           [session EXCEPT !.recorder = "recording",
                           !.recordingState = "recording",
                           !.micStreams = @ + 1])
    /\ UNCHANGED <<turnVars, player>>

\* the browser denies the microphone
MicDenied ==
    /\ session.recorder = "requesting"
    /\ session' = After(session,
           [session EXCEPT !.recorder = "idle", !.recordingState = "idle",
                           !.recordingError = TRUE])
    /\ UNCHANGED <<turnVars, player>>

\* the component is rendered with the hook's state "stopping"
StoppingVisible ==
    /\ session.recorder = "stopping"
    /\ session.recordingState = "recording"
    /\ session' = After(session,
           [session EXCEPT !.recordingState = "stopping"])
    /\ UNCHANGED <<turnVars, player>>

\* the recorder has finalized that blob: stopRecording() resolves
StopResolvedWith(blob) ==
    /\ \E c \in session.stops :
          session' = After(session,
              completeIfBlob(
                  [session EXCEPT !.recorder = "idle",
                                  !.recordingState = "idle",
                                  !.micStreams = 0,
                                  !.stops = @ \ {c}],
                  blob, c))
    /\ UNCHANGED <<turnVars, player>>

StopResolved == \E blob \in {"ok", "large"} : StopResolvedWith(blob)

\* audioBlob.arrayBuffer() settles: it resolves (ok) or rejects
EncodeDoneWith(ok) ==
    /\ \E e \in session.encodes :
          session' = After(session, encodeDone(session, e, ok))
    /\ UNCHANGED <<turnVars, player>>

EncodeDone == \E ok \in BOOLEAN : EncodeDoneWith(ok)

\* a 60 s processing timer fires
ProcessingTimeout ==
    /\ \E t \in Attempts :
          /\ Timer("processing", t) \in session.timers
          /\ session' = After(session, processingTimedOut(session, t))
    /\ UNCHANGED <<turnVars, player>>

\* a run ends with values carrying that ttsOutput
streamValues(w, tts) ==
    [w EXCEPT !.inFlight = @ - 1, !.isLoading = (w.inFlight > 1),
              !.ttsOutput = tts, !.ttsVersion = @ + 1,
              !.delivered = Append(@, tts), !.messageCount = @ + 1]

\* a run ends with an error: the values of the thread stay
streamError(w) ==
    [w EXCEPT !.inFlight = @ - 1, !.isLoading = (w.inFlight > 1)]

\* the browser lets new Blob and URL.createObjectURL succeed or throw in
\* the handler that is about to run
Browser(w) == {[w EXCEPT !.blobThrows = t] : t \in BOOLEAN}

StreamResult ==
    /\ session.inFlight > 0
    /\ \E w \in Browser(session) :
          \/ \E tts \in Deliveries :
                session' = After(session, streamValues(w, tts))
          \/ session' = After(session, streamError(w))
    /\ UNCHANGED <<turnVars, player>>

\* audioContext.close() of playAudioFromBase64 settles
CloseResolved ==
    /\ \E v \in session.closes, w \in Browser(session) :
          session' = After(session, closeResolved(w, v))
    /\ UNCHANGED <<turnVars, player>>

\* the Audio element has its first frame of data
LoadedData ==
    /\ \E p \in Attempts :
          /\ session.playbacks[p].status \in {"starting", "rejected"}
          /\ ~session.playbacks[p].loaded
          /\ session' = After(session, onloadeddata(session, p))
    /\ UNCHANGED <<turnVars, player>>

\* audio.play() resolves
PlayResolves ==
    /\ \E p \in Attempts :
          /\ session.playbacks[p].status = "starting"
          /\ session.playbacks[p].loaded
          /\ session' = After(session, playResolved(session, p))
    /\ UNCHANGED <<turnVars, player>>

\* audio.play() rejects with an error of that name: NotSupportedError after
\* the element has fired 'error', another name while it is starting
PlayRejectsWith(name) ==
    /\ \E p \in Attempts :
          /\ session.playbacks[p].pending
          /\ name = "NotSupportedError"
                <=> session.playbacks[p].status = "failed"
          /\ session' = After(session, playRejected(session, p, name))
    /\ UNCHANGED <<turnVars, player>>

\* audio.play() rejects: the autoplay policy, an aborted load, or a source
\* that failed
PlayRejects ==
    \E name \in {"NotAllowedError", "AbortError", "NotSupportedError"} :
        PlayRejectsWith(name)

\* the 100 ms timer of onloadeddata fires
VisualizationTimer ==
    /\ \E p \in Attempts,
          outcome \in {"AudioContext", "createMediaElementSource", "ok"} :
          /\ Timer("visualization", p) \in session.timers
          /\ session' = After(session,
                 setupAudioVisualization(session, p, outcome))
    /\ UNCHANGED <<turnVars, player>>

\* a scheduled animation frame runs
AnimationFrame ==
    /\ \E p \in session.frames :
          session' = After(session, updateAudioLevel(session, p))
    /\ UNCHANGED <<turnVars, player>>

\* the fallback interval of playback p ticks
FallbackTickOf(p) ==
    /\ Timer("fallback", p) \in session.timers
    /\ session' = After(session, fallbackTick(session, p))
    /\ UNCHANGED <<turnVars, player>>

\* a fallback interval ticks
FallbackTick == \E p \in Attempts : FallbackTickOf(p)

\* the Audio element plays to its end
Ended ==
    /\ \E p \in Attempts :
          /\ session.playbacks[p].status = "playing"
          /\ session' = After(session, onended(session, p))
    /\ UNCHANGED <<turnVars, player>>

\* the Audio element p fires that error event: onerror runs
ErrorEventWith(e) ==
    /\ \E p \in Attempts :
          /\ session.playbacks[p].status \in
                {"starting", "playing", "rejected"}
          /\ session' = After(session, onerror(session, p, e))
    /\ UNCHANGED <<turnVars, player>>

\* the Audio element fails while it starts or plays, or after its play()
\* was rejected
ErrorEvent == \E e \in ErrorEvents : ErrorEventWith(e)

\* the component unmounts: the cleanup of the cleanupAudio effect runs, the
\* hook releases its recorder and microphone
unmount(w) ==
    [cleanupAudio(w, w.cleanupDep) EXCEPT
        !.mounted = FALSE, !.recorder = "idle", !.recordingState = "idle",
        !.micStreams = 0, !.stops = {}]

Unmount ==
    /\ session.mounted
    /\ session' = After([session EXCEPT !.mounted = FALSE], unmount(session))
    /\ UNCHANGED <<turnVars, player>>

SessionNext ==
    \/ Gesture
    \/ MicGranted
    \/ MicDenied
    \/ StoppingVisible
    \/ StopResolved
    \/ EncodeDone
    \/ ProcessingTimeout
    \/ StreamResult
    \/ CloseResolved
    \/ LoadedData
    \/ PlayResolves
    \/ PlayRejects
    \/ VisualizationTimer
    \/ AnimationFrame
    \/ FallbackTick
    \/ Ended
    \/ ErrorEvent
    \/ Unmount

SessionSpec == SessionInit /\ [][SessionNext]_vars

SessionTypeOK ==
    /\ session.created <= MaxAttempts
    /\ session.completions <= MaxAttempts

(***************************************************************************)
(* Properties of the Voice Session.                                        *)
(***************************************************************************)
\* Audio element p is sounding
Sounding(p) == session.playbacks[p].status = "playing"

\* Audio element p was asked to play and has not ended, failed or been refused
Active(p) == session.playbacks[p].status \in {"starting", "playing"}

\* the microphone is being captured
Capturing == session.recorder = "recording"

\* C14: a microphone recording and an audio playback are never both active:
\* no state has the recorder capturing while an Audio element is sounding.
C14_RecordingExcludesPlayback ==
    ~(Capturing /\ \E p \in Attempts : Sounding(p))

\* C15: at most one audio playback is active at a time: no state has two
\* Audio elements sounding.
C15_OnePlayback ==
    Cardinality({p \in Attempts : Sounding(p)}) <= 1

\* C16: an unmounted session holds no microphone stream and no playback
\* resource: no sounding Audio element, no open AudioContext, no live object
\* URL, no scheduled animation frame, no pending timer.
C16_UnmountReleasesAll ==
    ~session.mounted =>
        /\ session.micStreams = 0
        /\ \A p \in Attempts : ~Sounding(p)
        /\ session.contexts = {}
        /\ session.urls = {}
        /\ session.frames = {}
        /\ session.timers = {}

\* playback p has left the playing state: it ended, failed, or its play()
\* was rejected
Exited(p) == session.playbacks[p].status \in {"ended", "failed", "rejected"}

\* C17: a playback that has left the playing state by its natural end, an
\* error event or a rejected play() holds no object URL, no AudioContext and
\* no animation frame.
C17_ExitReleases ==
    \A p \in Attempts :
        Exited(p) =>
            /\ p \notin session.urls
            /\ p \notin session.contexts
            /\ p \notin session.frames

\* the content fingerprint of a ttsOutput: payload size and payload prefix
Fingerprint(tts) == [size |-> tts.len, prefix |-> tts.content]

\* C18: the same ttsOutput, judged by its fingerprint, observed twice in
\* sequence (the same delivery again, or the next delivery) triggers at most
\* one playback.
C18_DuplicateNotReplayed ==
    \A i, j \in 1..Len(session.triggers) :
        (i < j /\ session.triggers[j] - session.triggers[i] <= 1) =>
            Fingerprint(session.delivered[session.triggers[i]])
                # Fingerprint(session.delivered[session.triggers[j]])

\* C20: at most one turn submission is in flight at any time.
C20_OneSubmissionInFlight == session.inFlight <= 1

\* the session shows one of these states
Shows(states) == getButtonState(session) \in states

\* C21: while the session shows requesting or processing, a user gesture
\* starts no recording, stops no recording and causes no submission.
C21_BusyGestureIgnored ==
    [][(Gesture /\ Shows({"requesting", "processing"})) =>
          /\ session'.recordings = session.recordings
          /\ session'.recorder = session.recorder
          /\ session'.stops = session.stops
          /\ session'.encodes = session.encodes
          /\ session'.completions = session.completions
          /\ session'.submissions = session.submissions]_vars

\* a gesture was made, and ignored, in requesting or processing
C21_Witness == session.ignored /\ Shows({"requesting", "processing"})

\* the transitions of the Voice Session: the cycle, any state to error,
\* error to idle (or straight on to requesting: a click in error starts the
\* next attempt, and the error state hides the idle in between)
Cycle ==
    {<<"idle", "requesting">>, <<"requesting", "recording">>,
     <<"recording", "processing">>, <<"processing", "playing">>,
     <<"playing", "idle">>}

Allowed(s, t) ==
    \/ s = t
    \/ <<s, t>> \in Cycle
    \/ t = "error"
    \/ s = "error" /\ t \in {"idle", "requesting"}

\* C22: the state a mounted session shows changes only along idle ->
\* requesting -> recording -> processing -> playing -> idle, to error, or
\* from error to idle.
C22_OnlyCycleTransitions ==
    [][(session.mounted /\ session'.mounted) =>
          Allowed(getButtonState(session), getButtonState(session'))]_vars

\* C23: a stopped recording does not stay in processing beyond the fixed
\* timeout: when the 60 s timer fires, the session shows processing no
\* longer.
C23_TimeoutEndsProcessing ==
    [][ProcessingTimeout => ~getButtonState(session') = "processing"]_vars

\* C24: once the processing timeout has fired for a turn, a result that
\* arrives later for that turn is discarded: its delivery starts no
\* playback.
C24_LateResultDiscarded ==
    [][(StreamResult /\ session.completions = 1
          /\ "Processing timed out" \in session.toasts) =>
          session'.triggers = session.triggers]_vars

\* C25: when a new turn is submitted, no playback of a previous turn is
\* still sounding: it was stopped and released before the submission.
C25_PlaybackStoppedBeforeSubmit ==
    [][(session'.submissions > session.submissions) =>
          \A p \in Attempts :
              session'.playbacks[p].status # "playing"]_vars

\* a finalized recording above the size ceiling reaches
\* handleVoiceRecordingComplete
Oversized ==
    /\ StopResolvedWith("large")
    /\ session'.completions > session.completions

\* C26: a recording above the size ceiling is rejected with the notice
\* "Audio file too large", nothing is encoded or submitted for it, and the
\* attempt leaves the session idle (no recording, no processing flag, no
\* error), so that with no other turn loading the session shows idle.
C26_OversizedRejected ==
    [][Oversized =>
          /\ "Audio file too large" \in session'.toasts
          /\ session'.submissions = session.submissions
          /\ session'.encodes = session.encodes
          /\ session'.inFlight = session.inFlight
          /\ ~session'.isProcessingVoice
          /\ session'.recordingState = "idle"
          /\ session'.recorder = "idle"
          /\ session'.inFlight = 0 => getButtonState(session') = "idle"]_vars

C26_Witness ==
    /\ session.mounted
    /\ "Audio file too large" \in session.toasts
    /\ session.completions = 1
    /\ session.submissions = 0
    /\ getButtonState(session) = "idle"

\* C27: while the user has made no gesture, no playback has been started
\* (no Audio element created, no playback triggered or pending), a ttsOutput
\* seen by the session has produced the notice "Audio response ready" at
\* most once, and the session shows idle.
C27_NoPlaybackBeforeGesture ==
    (session.mounted /\ ~session.hasUserInteracted) =>
        /\ session.created = 0
        /\ session.triggers = <<>>
        /\ session.closes = {}
        /\ \A p \in Attempts : session.playbacks[p].status = "none"
        /\ ~session.isPlayingAudio
        /\ session.notices <= 1
        /\ session.notices = 1 <=> "Audio response ready" \in session.toasts
        /\ getButtonState(session) = "idle"

C27_Witness ==
    /\ session.mounted
    /\ ~session.hasUserInteracted
    /\ session.ttsOutput # NONE
    /\ session.notices = 1
    /\ session.lastProcessedMessageId # NoId

\* notices a step has added
Added == session'.toasts \ session.toasts

\* C28: when play() is rejected by the autoplay policy (NotAllowedError; the
\* element's error event carries a MediaError, never an autoplay block), the
\* only notice the session adds is the informational "Audio ready to play",
\* never an error notice, the step does not put the session into the error
\* state, and the playback is over for the session: isPlayingAudio is reset,
\* so that with no recording and no turn in progress the session shows idle.
C28_AutoplayBlockIsNoError ==
    [][(PlayRejectsWith("NotAllowedError") /\ session.mounted
           /\ session'.mounted) =>
          /\ "Audio ready to play" \in session'.toasts
          /\ Added \subseteq {"Audio ready to play"}
          /\ getButtonState(session') = "error"
                => getButtonState(session) = "error"
          /\ ~session'.isPlayingAudio
          /\ (/\ session'.recordingState = "idle"
              /\ ~session'.recordingError
              /\ ~session'.isProcessingVoice
              /\ ~session'.isLoading) => getButtonState(session') = "idle"]_vars

\* a play() was rejected by the autoplay policy and the session shows idle,
\* with the informational notice and no playback error notice
C28_Witness ==
    /\ session.mounted
    /\ \E p \in Attempts : session.playbacks[p].status = "rejected"
    /\ "Audio ready to play" \in session.toasts
    /\ "Failed to play audio response" \notin session.toasts
    /\ getButtonState(session) = "idle"

\* nothing on the client is pending: no timer, animation frame or promise
\* continuation is outstanding, the recorder is idle, and every Audio
\* element the component created has ended or failed with its play()
\* settled, so that none of its callbacks can run any more
Quiet ==
    /\ session.timers = {} /\ session.frames = {}
    /\ session.stops = {} /\ session.encodes = {} /\ session.closes = {}
    /\ session.rejections = {}
    /\ session.recorder = "idle"
    /\ \A p \in Attempts :
          /\ session.playbacks[p].status \in {"none", "ended", "failed"}
          /\ ~session.playbacks[p].pending

\* C29: after the only attempt of a session has failed by timeout, once
\* nothing on the client is pending the session is not stuck: it is out of
\* processing and a gesture would start a new recording attempt.
C29_FailureNeverSticks ==
    (/\ session.mounted
     /\ session.recordings = 1
     /\ "Processing timed out" \in session.toasts
     /\ Quiet) =>
        /\ getButtonState(session) \in {"idle", "error"}
        /\ ~(session.isProcessingVoice \/ session.isLoading)
        /\ session.recordingState = "idle"

\* the texts of the toast.error calls of the component
ErrorNotices ==
    {"Recording failed", "Failed to process voice recording",
     "Audio file too large", "Failed to process audio",
     "Processing timed out", "Failed to play audio response",
     "Audio response too large to play", "Invalid audio data"}

\* a step in which the component reports a failure: it calls toast.error
\* with a text it has not shown before
FailureReported == Added \cap ErrorNotices # {}

\* C30: each client-side failure (permission, encoding, payload size,
\* timeout, playback) puts the session into the error state: after a step
\* that reports a failure the session shows error.
C30_FailureEntersError ==
    [][(FailureReported /\ session.mounted /\ session'.mounted) =>
          getButtonState(session') = "error"]_vars

(***************************************************************************)
(* Further properties of the turn graph.                                   *)
(***************************************************************************)
\* the turn of Scenario B: a candidate was transcribed, the agent returned
\* the history and one AI message with non-empty text, and the synthesis
\* collaborator delivered audio
VoiceTurnSucceeded ==
    /\ pc = "__end__"
    /\ sttCalls # <<>> /\ sttCalls[Len(sttCalls)].ok
    /\ agentResult # NONE
    /\ Len(agentResult.messages) = Len(entered["react_agent"].messages) + 1
    /\ LET reply == agentResult.messages[Len(agentResult.messages)]
       IN  reply.type = "ai" /\ reply.ctype = "string" /\ reply.text # ""
    /\ ttsCalls # <<>> /\ ~ttsCalls[1].threw /\ ttsCalls[1].bytes > 0

\* C31: a turn whose transcription, agent run and synthesis all succeed ends
\* with messages = submitted messages, then the human transcript, then the
\* AI message; audioInput absent; ttsOutput present with mimeType
\* "audio/mpeg" and size equal to the audio's byte length, which is > 0.
C31_VoiceTurnResult ==
    VoiceTurnSucceeded =>
        /\ messages =
              entered["speech_to_text"].messages
              \o <<[type |-> "human", ctype |-> "string",
                    text |-> sttCalls[Len(sttCalls)].text]>>
              \o <<agentResult.messages[Len(agentResult.messages)]>>
        /\ audioInput = NONE
        /\ ttsOutput # NONE
        /\ ttsOutput.mimeType = "audio/mpeg"
        /\ ttsOutput.size = ttsCalls[1].bytes
        /\ ttsOutput.size > 0
        /\ ttsOutput.audioData = 4 * ((ttsCalls[1].bytes + 2) \div 3)

C31_Witness ==
    /\ VoiceTurnSucceeded
    /\ entered["speech_to_text"].messages # <<>>
    /\ entered["speech_to_text"].ttsOutput # NONE
    /\ Len(sttCalls) > 1

\* list a is a prefix of list b
IsPrefix(a, b) == Len(a) <= Len(b) /\ SubSeq(b, 1, Len(a)) = a

\* node n returned and its update was applied
Returned(n) == exited[n] # NotRun

\* C32: messages is append-only within a turn: each stage's message list on
\* entry is a prefix of its list on exit, the current messages extend the
\* submitted ones, and the Synthesize stage leaves messages unchanged.
C32_MessagesAppendOnly ==
    /\ \A n \in Nodes :
          Returned(n) => IsPrefix(entered[n].messages, exited[n].messages)
    /\ Ran("speech_to_text") =>
          IsPrefix(entered["speech_to_text"].messages, messages)
    /\ Returned("text_to_speech") =>
          exited["text_to_speech"].messages = entered["text_to_speech"].messages

C32_Witness ==
    /\ pc = "__end__"
    /\ entered["speech_to_text"].messages # <<>>
    /\ Len(exited["speech_to_text"].messages)
          > Len(entered["speech_to_text"].messages)
    /\ Len(exited["react_agent"].messages)
          = Len(entered["react_agent"].messages) + 2

\* C33: with audioInput present and no transcription credential the
\* Transcribe stage appends the apology without a transcription call; with
\* no synthesis credential the Synthesize stage leaves ttsOutput absent
\* without a synthesis call; in both cases the turn runs to completion.
C33_MissingCredentialIsLocal ==
    /\ (TurnOver /\ AudioSubmitted /\ ~env.OPENAI_API_KEY) =>
          /\ sttCalls = <<>>
          /\ ApologyAppended
          /\ pc = "__end__"
    /\ (TurnOver /\ Ran("text_to_speech") /\ ~env.ELEVENLABS_API_KEY) =>
          /\ ttsCalls = <<>>
          /\ ttsOutput = NONE
          /\ pc = "__end__"

(***************************************************************************)
(* Further properties of the Voice Session.                                *)
(***************************************************************************)
\* C34: when the visualization graph could not be built, the synthetic
\* amplitude generator supplies the level samples of that playback: a tick
\* of the generator while the audio is playing produces a sample and leaves
\* the generator running.
C34_FallbackSuppliesSamples ==
    [][\A p \in Attempts :
          (FallbackTickOf(p) /\ session.playbacks[p].status = "playing") =>
              Timer("fallback", p) \in session'.timers]_vars

\* attempt t is still inside handleVoiceRecordingComplete: its encoding is
\* awaited
Encoding(t) == \E e \in session.encodes : e.timeoutId = t

\* C35: the processing timeout of an attempt is cancelled on every exit path
\* of handleVoiceRecordingComplete: a pending timeout belongs to an attempt
\* that has not ended yet.
C35_TimeoutCancelledOnExit ==
    \A t \in Attempts :
        Timer("processing", t) \in session.timers => Encoding(t)

\* the step runs setupAudioVisualization for playback p
SetupRuns(p) ==
    /\ Timer("visualization", p) \in session.timers
    /\ Timer("visualization", p) \notin session'.timers

\* C36: visualization setup never runs for a playback whose cleanup has
\* already run (it ended or failed): for such a playback no audio context is
\* opened and no animation loop is started.
C36_NoSetupAfterCleanup ==
    [][\A p \in Attempts :
          (SetupRuns(p) /\ session.playbacks[p].status \in {"ended", "failed"})
              => /\ session'.contexts \subseteq session.contexts
                 /\ session'.frames \subseteq session.frames
                 /\ ~session'.playbacks[p].isAnimating]_vars

\* the step runs cleanupAudio from the effect of lines 72-74
CleanupEffectRuns == session'.cleanupDep # session.cleanupDep

\* C37: while the component is mounted no step runs cleanupAudio: storing
\* the processing-timeout handle (or any other state change) does not
\* re-run the unmount cleanup.
C37_CleanupOnlyAtTeardown ==
    [][(session.mounted /\ session'.mounted) => ~CleanupEffectRuns]_vars

\* the synthetic amplitude generator of playback p is running
FallbackRunning(w, p) == Timer("fallback", p) \in w.timers

\* C38: the synthetic amplitude generator runs for as long as its playback
\* is active and stops once the playback is over: no step stops it while
\* the audio goes on playing, and a tick after the playback is over stops it.
C38_FallbackLifetime ==
    [][\A p \in Attempts :
          FallbackRunning(session, p) =>
              /\ (/\ session.playbacks[p].status = "playing"
                  /\ session'.playbacks[p].status = "playing") =>
                     FallbackRunning(session', p)
              /\ (/\ FallbackTickOf(p)
                  /\ session.playbacks[p].status \notin {"starting", "playing"})
                     => ~FallbackRunning(session', p)]_vars

(***************************************************************************)
(* The TTS player hook: useTTSPlayer.                                      *)
(*                                                                         *)
(* playTTS is a useCallback with dependency [currentTTSUrl]: a call sees   *)
(* the currentTTSUrl of the render that created the callback, and the      *)
(* listeners and the catch block of that call keep seeing that same value. *)
(* The unmount effect has no dependencies: it sees the currentTTSUrl of    *)
(* the first render, null.                                                 *)
(***************************************************************************)
\* the most playTTS calls that create an Audio element
MaxPlays == 3

Plays == 1..MaxPlays

\* the ttsOutput values playTTS is called with: size, the first 50
\* characters of audioData, the length of audioData and the number of '='
\* that end it ('SUQzBAA=', '//uQAAAAAA==', '', 'SUQzB')
PlayerOutputs ==
    {[size |-> 5, prefix |-> "SUQz", chars |-> 8, pad |-> 1],
     [size |-> 7, prefix |-> "//uQ", chars |-> 12, pad |-> 2],
     [size |-> 0, prefix |-> "", chars |-> 0, pad |-> 0],
     [size |-> 3, prefix |-> "SUQzB", chars |-> 5, pad |-> 0]}

\* lastPlayedDataRef.current = null
NoHash == [size |-> 0, prefix |-> "null"]

\* `${ttsOutput.size}-${ttsOutput.audioData.substring(0, 50)}`
audioHash(tts) == [size |-> tts.size, prefix |-> tts.prefix]

\* atob(ttsOutput.audioData) throws: no base64 text has this length
playerAtobThrows(tts) == tts.chars % 4 = 1

\* atob(audioData), new Blob([arrayBuffer]): audioBlob.size
blobSize(tts) == (tts.chars * 3) \div 4 - tts.pad

\* an Audio element not created yet.  pending: the promise of its play() is
\* not settled.  resolving: the browser has queued the resolution of that
\* promise.  loadstart: the 'loadstart' of the source playTTS gave it is
\* queued.  ending: the media has reached its end and 'ended' is queued.
\* emptied: what the browser has queued on an element that was given
\* src = '': "loadstart", then "error", then nothing more ("done")
NoAudio ==
    [status |-> "none", pending |-> FALSE, resolving |-> FALSE,
     loadstart |-> FALSE, ending |-> FALSE,
     closureUrl |-> NoRef, emptied |-> "no"]

\* the hook after its first render; renderedUrl is the currentTTSUrl of the
\* latest render, the one the playTTS it returned closes over, and renders
\* are the values of currentTTSUrl the hook was rendered with so far
PlayerMounted ==
    [mounted |-> TRUE, isPlaying |-> FALSE, currentTTSUrl |-> NoRef,
     renderedUrl |-> NoRef, renders |-> {NoRef},
     audioRef |-> NoRef, lastPlayedDataRef |-> NoHash, created |-> 0,
     urls |-> {}, audios |-> [p \in Plays |-> NoAudio], failed |-> FALSE]

\* a state setter called with value v: ignored once the hook is unmounted
setState(w, field, v) == IF w.mounted THEN [w EXCEPT ![field] = v] ELSE w

\* if (currentTTSUrl) { URL.revokeObjectURL(currentTTSUrl);
\*                      setCurrentTTSUrl(null); }
revokeClosureUrl(w, closureUrl) ==
    IF closureUrl # NoRef
    THEN setState([w EXCEPT !.urls = @ \ {closureUrl}], "currentTTSUrl", NoRef)
    ELSE w

\* audioRef.current.pause(): an element that starts or plays is paused; a
\* play() still pending will be rejected, unless its resolution is queued
pause(w) ==
    IF w.audioRef = NoRef THEN w
    ELSE [w EXCEPT !.audios[w.audioRef].status =
                       IF @ \in {"starting", "playing"} THEN "paused" ELSE @]

\* audioRef.current.pause(); src = ''; load(): the element, whatever its
\* status, drops the events its old source had queued and starts loading
\* the empty source: the browser queues 'loadstart' and then 'error' on it,
\* and its listeners are still attached
pauseAudio(w) ==
    IF w.audioRef = NoRef THEN w
    ELSE [pause(w) EXCEPT !.audios[w.audioRef].loadstart = FALSE,
                          !.audios[w.audioRef].ending = FALSE,
                          !.audios[w.audioRef].emptied = "loadstart"]

\* the catch block of playTTS
playTTScatch(w, closureUrl) ==
    LET a == setState([w EXCEPT !.lastPlayedDataRef = NoHash],
                      "isPlaying", FALSE)
    IN  [revokeClosureUrl(a, closureUrl) EXCEPT !.failed = TRUE]

\* playTTS(ttsOutput) up to `await audio.play()`; closureUrl is currentTTSUrl
\* of the render that created the callback
playTTS(w, tts, closureUrl) ==
    IF w.lastPlayedDataRef = audioHash(tts) THEN w
    ELSE
        LET a == pauseAudio([w EXCEPT !.lastPlayedDataRef = audioHash(tts)])
            b == revokeClosureUrl(a, closureUrl)
            p == w.created + 1
        IN  IF playerAtobThrows(tts) \/ blobSize(tts) = 0
            THEN playTTScatch(b, closureUrl)
            ELSE [setState(b, "currentTTSUrl", p)
                    EXCEPT !.urls = @ \cup {p},
                           !.created = p,
                           !.audioRef = p,
                           !.audios[p] = [NoAudio EXCEPT
                                            !.status = "starting",
                                            !.pending = TRUE,
                                            !.loadstart = TRUE,
                                            !.closureUrl = closureUrl]]

\* the 'ended' listener of audio p
playerEnded(w, p) ==
    LET a == setState([w EXCEPT !.audios[p].status = "ended",
                                !.audios[p].ending = FALSE,
                                !.lastPlayedDataRef = NoHash],
                      "isPlaying", FALSE)
    IN  revokeClosureUrl(a, w.audios[p].closureUrl)

\* the 'loadstart' listener of audio p: for the source playTTS gave the
\* element, or for the empty source it was given later
playerLoadStart(w, p) ==
    LET a == IF w.audios[p].loadstart
             THEN [w EXCEPT !.audios[p].loadstart = FALSE]
             ELSE [w EXCEPT !.audios[p].emptied = "error"]
    IN  setState(a, "isPlaying", TRUE)

\* the 'error' listener of audio p; a play() that is pending stays pending,
\* the catch block is a later task
playerError(w, p) ==
    setState([w EXCEPT !.audios[p].status = "failed",
                       !.audios[p].emptied =
                           IF @ = "error" THEN "done" ELSE @,
                       !.lastPlayedDataRef = NoHash],
             "isPlaying", FALSE)

\* `await audio.play()` of audio p resolves: the code after the await
\* changes nothing.  An element that was paused in between stays paused.
playerPlayResolved(w, p) ==
    [w EXCEPT !.audios[p].status = IF @ = "starting" THEN "playing" ELSE @,
              !.audios[p].pending = FALSE,
              !.audios[p].resolving = FALSE]

\* `await audio.play()` of audio p rejects: the catch block.  An element that
\* was paused or has fired 'error' before keeps that status.
playerPlayRejected(w, p) ==
    playTTScatch([w EXCEPT !.audios[p].status =
                               IF @ = "starting" THEN "rejected" ELSE @,
                           !.audios[p].pending = FALSE],
                 w.audios[p].closureUrl)

\* the cleanup of the unmount effect: currentTTSUrl is the first render's
playerUnmount(w) ==
    [revokeClosureUrl(pauseAudio(w), NoRef) EXCEPT !.mounted = FALSE]

\* stopTTS()
stopTTS(w) ==
    LET a == IF w.audioRef # NoRef
             THEN setState(pause(w), "isPlaying", FALSE)
             ELSE w
    IN  [a EXCEPT !.lastPlayedDataRef = NoHash]

PlayerInit ==
    /\ pc = "__end__"
    /\ messages = <<>>
    /\ audioInput = NONE
    /\ ttsOutput = NONE
    /\ env = [OPENAI_API_KEY |-> TRUE, ELEVENLABS_API_KEY |-> TRUE]
    /\ ran = <<>>
    /\ entered = [n \in Nodes |-> NotRun]
    /\ exited = [n \in Nodes |-> NotRun]
    /\ sttCalls = <<>>
    /\ agentResult = NONE
    /\ ttsCalls = <<>>
    /\ session = NoSession
    /\ player = PlayerMounted

\* the hook renders again after setCurrentTTSUrl: playTTS is created anew
PlayerRender ==
    /\ player.mounted
    /\ player.renderedUrl # player.currentTTSUrl
    /\ player' = [player EXCEPT !.renderedUrl = player.currentTTSUrl,
                                !.renders = @ \cup {player.currentTTSUrl}]
    /\ UNCHANGED <<turnVars, session>>

\* playTTS is called: the callback of the latest render, or one that a
\* caller still holds from an earlier render or from before the unmount
PlayTTS ==
    /\ player.created < MaxPlays
    /\ \E tts \in PlayerOutputs, closureUrl \in player.renders :
          player' = playTTS(player, tts, closureUrl)
    /\ UNCHANGED <<turnVars, session>>

\* a new element fires 'loadstart' for the source playTTS gave it
PlayerLoadStart ==
    /\ \E p \in Plays :
          /\ player.audios[p].loadstart
          /\ player' = playerLoadStart(player, p)
    /\ UNCHANGED <<turnVars, session>>

\* an element that has begun to load and is not paused has data enough to
\* play ('canplay'): the browser queues the resolution of its play()
PlayerCanPlay ==
    /\ \E p \in Plays :
          /\ player.audios[p].status = "starting"
          /\ player.audios[p].pending
          /\ ~player.audios[p].resolving
          /\ ~player.audios[p].loadstart
          /\ player' = [player EXCEPT !.audios[p].resolving = TRUE]
    /\ UNCHANGED <<turnVars, session>>

\* play() resolves: the queued resolution runs, whatever became of the
\* element in between (paused, given src = '', unmounted)
PlayerPlayResolves ==
    /\ \E p \in Plays :
          /\ player.audios[p].pending
          /\ player.audios[p].resolving
          /\ player' = playerPlayResolved(player, p)
    /\ UNCHANGED <<turnVars, session>>

\* play() rejects: the autoplay policy, a pause or a new load while it was
\* pending, or a source that failed
PlayerPlayRejects ==
    /\ \E p \in Plays :
          /\ player.audios[p].pending
          /\ ~player.audios[p].resolving
          /\ player' = playerPlayRejected(player, p)
    /\ UNCHANGED <<turnVars, session>>

\* the media of a playing element reaches its end: 'ended' is queued
PlayerMediaEnds ==
    /\ \E p \in Plays :
          /\ player.audios[p].status = "playing"
          /\ ~player.audios[p].ending
          /\ player' = [player EXCEPT !.audios[p].ending = TRUE]
    /\ UNCHANGED <<turnVars, session>>

\* the 'ended' listener runs, also when stopTTS paused the element after
\* its media had ended
PlayerEnded ==
    /\ \E p \in Plays :
          /\ player.audios[p].ending
          /\ player' = playerEnded(player, p)
    /\ UNCHANGED <<turnVars, session>>

\* an element that still has its source and has begun to load it fires
\* 'error': while it starts, plays or is paused, or after its play() was
\* rejected
PlayerError ==
    /\ \E p \in Plays :
          /\ player.audios[p].status \in
                {"starting", "playing", "paused", "rejected"}
          /\ ~player.audios[p].loadstart
          /\ player.audios[p].emptied = "no"
          /\ player' = playerError(player, p)
    /\ UNCHANGED <<turnVars, session>>

\* an element that was given src = '' fires 'loadstart'; the rejection of
\* its pending play() is a microtask and has run before
PlayerEmptiedLoadStart ==
    /\ \E p \in Plays :
          /\ player.audios[p].emptied = "loadstart"
          /\ ~player.audios[p].pending
          /\ player' = playerLoadStart(player, p)
    /\ UNCHANGED <<turnVars, session>>

\* an element that was given src = '' fires 'error' (MediaError code 4)
PlayerEmptiedError ==
    /\ \E p \in Plays :
          /\ player.audios[p].emptied = "error"
          /\ player' = playerError(player, p)
    /\ UNCHANGED <<turnVars, session>>

PlayerUnmount ==
    /\ player.mounted
    /\ player' = playerUnmount(player)
    /\ UNCHANGED <<turnVars, session>>

\* stopTTS is called
PlayerStop ==
    /\ player' = stopTTS(player)
    /\ UNCHANGED <<turnVars, session>>

PlayerNext ==
    \/ PlayerRender
    \/ PlayTTS
    \/ PlayerLoadStart
    \/ PlayerCanPlay
    \/ PlayerPlayResolves
    \/ PlayerPlayRejects
    \/ PlayerMediaEnds
    \/ PlayerEnded
    \/ PlayerError
    \/ PlayerEmptiedLoadStart
    \/ PlayerEmptiedError
    \/ PlayerStop
    \/ PlayerUnmount

PlayerSpec == PlayerInit /\ [][PlayerNext]_vars

\* the playback of object URL u is over: its audio ended, it failed (an
\* 'error' event, or a play() rejected while it was starting), a later
\* playTTS call superseded it (its element was given src = ''), or the
\* component has unmounted.  A playback that stopTTS paused is not over.
Over(u) ==
    \/ ~player.mounted
    \/ player.audios[u].status \in {"ended", "failed", "rejected"}
    \/ player.audios[u].emptied # "no"

\* C39: every object URL playTTS created is revoked once its playback has
\* ended, failed, been superseded by a later playTTS call, or the component
\* has unmounted: no unrevoked URL belongs to a playback that is over.
C39_UrlsRevoked == \A u \in player.urls : ~Over(u)

\* C40: shouldProcessTTS answers "processTTS" for exactly the states on
\* which text_to_speech attempts synthesis (last message agent-authored with
\* non-empty text content) and "__end__" for every other state.
C40_ShouldProcessMatchesStage ==
    Ran("text_to_speech") =>
        LET state == entered["text_to_speech"]
        IN  /\ shouldProcessTTS(state) \in {"processTTS", "__end__"}
            /\ shouldProcessTTS(state) = "processTTS"
                  <=> Speakable(state.messages)

====
